---- MODULE Spec2Model ----
(***************************************************************************)
(* Model of Scripts/artist_recommender.py: get_recommendations(df).        *)
(*                                                                         *)
(* A Python str is a sequence of one-character strings.  A table cell is   *)
(* a tagged record: a str, a number or a null (None / NaN).  The caller's  *)
(* table df is a record of its column names, the dtype pandas gave its     *)
(* Similar_Artists column, and its rows (functions from column names to    *)
(* cells).  One action, Call, is one invocation of get_recommendations on  *)
(* the caller's table.                                                     *)
(***************************************************************************)
EXTENDS Integers, Sequences, FiniteSets, TLC

VARIABLES
    df,        \* the caller's table, the object every call is given
    supplied,  \* that table as it was before the first call
    hashSeed,  \* the str hash seed of the process (orders set iteration)
    sortTies,  \* how the build's quicksort leaves rows of equal score
    outcome,   \* what the last call returned or raised
    prev       \* what the call before it returned or raised

vars == <<df, supplied, hashSeed, sortTies, outcome, prev>>

(***************************************************************************)
(* Bounds of the model.                                                    *)
(***************************************************************************)
MaxRows == 2

(***************************************************************************)
(* Characters and strings.                                                 *)
(***************************************************************************)
\* The characters the model's inputs are written in, in code-point order.
CodePoints == <<" ", "!", ",", "-", "0", "2", "5", "9", "P", "R", "a", "b", "c", "p", "r", "x">>

Ord(c) == CHOOSE i \in DOMAIN CodePoints : CodePoints[i] = c

IsSpace(c) == c = " "

IsDigit(c) == c \in {"0", "2", "5", "9"}

\* \w of the regular expression: letters, digits, underscore.
IsWord(c) == c \in {"0", "2", "5", "9", "P", "R", "a", "b", "c", "p", "r", "x"}

\* str.lower(), one character.
LowerChar(c) == IF c = "P" THEN "p" ELSE IF c = "R" THEN "r" ELSE c

\* str.lower()
Lower(s) == [i \in DOMAIN s |-> LowerChar(s[i])]

\* Python's < on str: lexicographic by code point, a proper prefix first.
RECURSIVE StrLess(_, _)
StrLess(a, b) ==
    IF b = <<>> THEN FALSE
    ELSE IF a = <<>> THEN TRUE
    ELSE IF Head(a) # Head(b) THEN Ord(Head(a)) < Ord(Head(b))
    ELSE StrLess(Tail(a), Tail(b))

RECURSIVE LStrip(_)
LStrip(s) == IF s # <<>> /\ IsSpace(Head(s)) THEN LStrip(Tail(s)) ELSE s

RECURSIVE RStrip(_)
RStrip(s) ==
    IF s # <<>> /\ IsSpace(s[Len(s)]) THEN RStrip(SubSeq(s, 1, Len(s) - 1)) ELSE s

\* str.strip()
Strip(s) == RStrip(LStrip(s))

\* sep.join(parts)
RECURSIVE Join(_, _)
Join(sep, parts) ==
    IF parts = <<>> THEN <<>>
    ELSE IF Len(parts) = 1 THEN parts[1]
    ELSE parts[1] \o sep \o Join(sep, Tail(parts))

\* re.sub(r'[^\w\s]', '', s): every character that is neither \w nor \s removed.
RemovePunct(s) == SelectSeq(s, LAMBDA c : IsWord(c) \/ IsSpace(c))

(***************************************************************************)
(* Cells.                                                                  *)
(***************************************************************************)
Str(s) == [t |-> "str", s |-> s, n |-> 0]

Num(n) == [t |-> "num", s |-> <<>>, n |-> n]

Null == [t |-> "null", s |-> <<>>, n |-> 0]

IsStr(c) == c.t = "str"

NotNa(c) == c.t # "null"

\* clean_key(text), a str
CleanKeyNoLower(text) ==
    IF ~IsStr(text) THEN <<>> ELSE Strip(RemovePunct(text.s))

CleanKey(text) ==
    IF ~IsStr(text) THEN <<>> ELSE Strip(RemovePunct(Lower(text.s)))

(***************************************************************************)
(* Lines 16-27: the artist-level table.                                    *)
(***************************************************************************)
Selected == {"Artist", "Similar_Artists", "Total_Plays", "Artist_Genres"}

\* Lines 17-18: df['Artist_Genres'] = "" when the column is absent; the
\* assignment is to the caller's table.
EnsureGenres(t) ==
    IF "Artist_Genres" \in t.cols THEN t
    ELSE [t EXCEPT !.cols = @ \cup {"Artist_Genres"},
                   !.rows = [i \in DOMAIN @ |->
                               [c \in t.cols \cup {"Artist_Genres"} |->
                                  IF c \in t.cols THEN @[i][c] ELSE Str(<<>>)]]]

\* Line 21: the labels df[[...]] does not find; the KeyError names them.
MissingColumns(t) == Selected \ t.cols

DigitVal(c) == CASE c = "0" -> 0 [] c = "2" -> 2 [] c = "5" -> 5 [] c = "9" -> 9

RECURSIVE ParseDigits(_, _)
ParseDigits(s, acc) ==
    IF s = <<>> THEN acc ELSE ParseDigits(Tail(s), 10 * acc + DigitVal(Head(s)))

AllDigits(s) == s # <<>> /\ \A i \in DOMAIN s : IsDigit(s[i])

\* Line 24: pd.to_numeric(.., errors='coerce').fillna(0), one cell.  A str of
\* the model's characters parses when it is an optionally signed run of digits.
ToNumeric(c) ==
    IF c.t = "num" THEN c.n
    ELSE IF c.t = "null" THEN 0
    ELSE IF AllDigits(c.s) THEN ParseDigits(c.s, 0)
    ELSE IF c.s # <<>> /\ Head(c.s) = "-" /\ AllDigits(Tail(c.s))
         THEN 0 - ParseDigits(Tail(c.s), 0)
    ELSE 0

\* Line 25: fillna("")
FillNa(c) == IF NotNa(c) THEN c ELSE Str(<<>>)

\* Line 21: drop_duplicates('Artist'), the first occurrence kept (nulls equal).
DropDuplicates(rows) ==
    LET keep == {i \in DOMAIN rows : \A j \in 1..(i - 1) : rows[j].Artist # rows[i].Artist}
        F[i \in 0..Len(rows)] ==
            IF i = 0 THEN <<>>
            ELSE IF i \in keep THEN Append(F[i - 1], rows[i]) ELSE F[i - 1]
    IN F[Len(rows)]

\* Lines 21-27: artist_df
ArtistDf(t) ==
    LET typed == [i \in DOMAIN t.rows |->
                    [Artist |-> t.rows[i].Artist,
                     Similar_Artists |-> t.rows[i].Similar_Artists,
                     Total_Plays |-> ToNumeric(t.rows[i].Total_Plays),
                     Artist_Genres |-> FillNa(t.rows[i].Artist_Genres)]]
    IN SelectSeq(DropDuplicates(typed), LAMBDA r : NotNa(r.Artist))

\* Line 30: library_clean
LibraryClean(adf) == {CleanKey(adf[i].Artist) : i \in DOMAIN adf}

(***************************************************************************)
(* Lines 32-40: the candidate rows.                                        *)
(***************************************************************************)
\* re.split(r',\s*', s): cur is the piece being read.
RECURSIVE SplitCommaSpace(_, _)
SplitCommaSpace(s, cur) ==
    IF s = <<>> THEN <<cur>>
    ELSE IF Head(s) = "," THEN <<cur>> \o SplitCommaSpace(LStrip(Tail(s)), <<>>)
    ELSE SplitCommaSpace(Tail(s), Append(cur, Head(s)))

\* Line 33: .str.split(..) then .explode(..): one row per piece, a null
\* Similar_Artists staying one row with a null.
RECURSIVE Explode(_)
Explode(adf) ==
    IF adf = <<>> THEN <<>>
    ELSE LET r == Head(adf)
             pieces == IF IsStr(r.Similar_Artists)
                       THEN SplitCommaSpace(r.Similar_Artists.s, <<>>)
                       ELSE <<>>
             rows == IF IsStr(r.Similar_Artists)
                     THEN [k \in DOMAIN pieces |->
                             [r EXCEPT !.Similar_Artists = Str(pieces[k])]]
                     ELSE <<[r EXCEPT !.Similar_Artists = Null]>>
         IN rows \o Explode(Tail(adf))

\* Line 34: notna() & != ""
KeepPiece(r) == NotNa(r.Similar_Artists) /\ r.Similar_Artists # Str(<<>>)

\* Lines 33-40: recs, with the fuzzy filter applied
Recs(adf) ==
    LET lib == LibraryClean(adf)
    IN SelectSeq(SelectSeq(Explode(adf), KeepPiece),
                 LAMBDA r : CleanKey(r.Similar_Artists) \notin lib)

(***************************************************************************)
(* Lines 42-50: get_unique_genres.                                         *)
(***************************************************************************)
\* g_str.split(',')
RECURSIVE SplitComma(_, _)
SplitComma(s, cur) ==
    IF s = <<>> THEN <<cur>>
    ELSE IF Head(s) = "," THEN <<cur>> \o SplitComma(Tail(s), <<>>)
    ELSE SplitComma(Tail(s), Append(cur, Head(s)))

\* Line 48: [g.strip() for g in g_str.split(',') if g.strip()], as a set
Tags(s) ==
    LET parts == SplitComma(s, <<>>)
    IN {Strip(parts[k]) : k \in DOMAIN parts} \ {<<>>}

\* Lines 44-48: the set the loop builds from the group's Artist_Genres cells
GenreSet(genre_series) ==
    UNION {IF IsStr(genre_series[i]) /\ Strip(genre_series[i].s) # <<>>
           THEN Tags(genre_series[i].s) ELSE {} : i \in DOMAIN genre_series}

\* A set of str listed by code point, ascending.
RECURSIVE Ascending(_)
Ascending(S) ==
    IF S = {} THEN <<>>
    ELSE LET m == CHOOSE x \in S : \A y \in S : ~StrLess(y, x)
         IN <<m>> \o Ascending(S \ {m})

Reverse(q) == [i \in DOMAIN q |-> q[Len(q) + 1 - i]]

\* The order in which a Python set of str is iterated: fixed by the str hashes,
\* which the process draws at start (hashSeed) and keeps; the same set built
\* the same way is iterated the same way for as long as the process lives.
SetIterationPerCall(S) ==
    IF (hashSeed = 0) = (outcome.status = "none") THEN Ascending(S)
    ELSE Reverse(Ascending(S))

SetIteration(S) == IF hashSeed = 0 THEN Ascending(S) ELSE Reverse(Ascending(S))

\* sorted(.., key=lambda x: x.lower()), an element put behind those whose key
\* is not greater: the sort is stable.
RECURSIVE InsertByLower(_, _)
InsertByLower(x, q) ==
    IF q = <<>> THEN <<x>>
    ELSE IF StrLess(Lower(x), Lower(Head(q))) THEN <<x>> \o q
    ELSE <<Head(q)>> \o InsertByLower(x, Tail(q))

RECURSIVE SortedByLower(_)
SortedByLower(q) ==
    IF q = <<>> THEN <<>>
    ELSE InsertByLower(q[Len(q)], SortedByLower(SubSeq(q, 1, Len(q) - 1)))

GetUniqueGenresFirstRow(genre_series) ==
    Join(<<",", " ">>,
         SortedByLower(SetIteration(GenreSet(SubSeq(genre_series, 1, 1)))))

\* Lines 43-50
GetUniqueGenres(genre_series) ==
    Join(<<",", " ">>, SortedByLower(SetIteration(GenreSet(genre_series))))

(***************************************************************************)
(* Lines 52-78: groups, score, order.                                      *)
(***************************************************************************)
\* x.unique(): first appearances, in order
RECURSIVE Unique(_)
Unique(q) ==
    IF q = <<>> THEN <<>>
    ELSE LET u == Unique(SubSeq(q, 1, Len(q) - 1))
             x == q[Len(q)]
         IN IF \E i \in DOMAIN u : u[i] = x THEN u ELSE Append(u, x)

RECURSIVE Sum(_)
Sum(q) == IF q = <<>> THEN 0 ELSE Head(q) + Sum(Tail(q))

RECURSIVE Pow(_, _)
Pow(x, n) == IF n = 0 THEN 1 ELSE x * Pow(x, n - 1)

\* Lines 61-63: count * log10(plays + 1).  The float is held as 10 to its
\* power, (plays + 1)^count, which orders as the float does and is 1 exactly
\* when the score is 0.  log10 of 0 is -inf and of a negative number NaN.
ScoreNoPlusOne(count, plays) ==
    IF plays < 0 THEN [kind |-> "nan", pow |-> 0]
    ELSE IF plays = 0 THEN [kind |-> "-inf", pow |-> 0]
    ELSE [kind |-> "finite", pow |-> Pow(plays, count)]

Score(count, plays) ==
    IF plays + 1 < 0 THEN [kind |-> "nan", pow |-> 0]
    ELSE IF plays + 1 = 0 THEN [kind |-> "-inf", pow |-> 0]
    ELSE [kind |-> "finite", pow |-> Pow(plays + 1, count)]

\* a > b on floats; false when either is NaN
ScoreGreater(a, b) ==
    /\ a.kind # "nan" /\ b.kind # "nan"
    /\ \/ a.kind = "finite" /\ b.kind = "-inf"
       \/ a.kind = "finite" /\ b.kind = "finite" /\ a.pow > b.pow

\* a >= b on floats; false when either is NaN
ScoreGeq(a, b) == a.kind # "nan" /\ b.kind # "nan" /\ ~ScoreGreater(b, a)

ScoreIsZero(a) == a.kind = "finite" /\ a.pow = 1

\* Lines 53-58 and 61-63: one group's row
GroupRowCountingArtists(key, rows) ==
    LET artists == Unique([i \in DOMAIN rows |-> rows[i].Artist.s])
        plays == Sum([i \in DOMAIN rows |-> rows[i].Total_Plays])
    IN [Missing_Artist |-> key,
        Related_Library_Artists |-> Join(<<",", " ">>, artists),
        Recommendation_Count |-> Len(artists),
        Related_Library_Artists_Total_Play_Count |-> plays,
        Priority_Score |-> Score(Len(artists), plays),
        Related_Artist_Genres |->
            GetUniqueGenres([i \in DOMAIN rows |-> rows[i].Artist_Genres])]

GroupRow(key, rows) ==
    LET artists == Unique([i \in DOMAIN rows |-> rows[i].Artist.s])
        count == Len(rows)
        plays == Sum([i \in DOMAIN rows |-> rows[i].Total_Plays])
    IN [Missing_Artist |-> key,
        Related_Library_Artists |-> Join(<<",", " ">>, artists),
        Recommendation_Count |-> count,
        Related_Library_Artists_Total_Play_Count |-> plays,
        Priority_Score |-> Score(count, plays),
        Related_Artist_Genres |->
            GetUniqueGenres([i \in DOMAIN rows |-> rows[i].Artist_Genres])]

\* Lines 53-58: groupby('Similar_Artists'), the groups in key order
Grouped(recs) ==
    LET keys == Ascending({recs[i].Similar_Artists.s : i \in DOMAIN recs})
    IN [k \in DOMAIN keys |->
          GroupRow(keys[k],
                   SelectSeq(recs, LAMBDA r : r.Similar_Artists.s = keys[k]))]

\* A row put behind those whose score is not smaller.
RECURSIVE InsertByScore(_, _)
InsertByScore(x, q) ==
    IF q = <<>> THEN <<x>>
    ELSE IF ScoreGreater(x.Priority_Score, Head(q).Priority_Score) THEN <<x>> \o q
    ELSE <<Head(q)>> \o InsertByScore(x, Tail(q))

RECURSIVE Descending(_)
Descending(q) ==
    IF q = <<>> THEN <<>>
    ELSE InsertByScore(q[Len(q)], Descending(SubSeq(q, 1, Len(q) - 1)))

\* Line 78: sort_values('Priority_Score', ascending=False): the rows with a
\* number ordered (kind='quicksort': equal scores in the order the numpy
\* build's sort leaves them, sortTies), then the NaN rows as they stood.
SortValues(rows) ==
    LET isnan(r) == r.Priority_Score.kind = "nan"
        numbered == SelectSeq(rows, LAMBDA r : ~isnan(r))
    IN Descending(IF sortTies = "kept" THEN numbered ELSE Reverse(numbered))
         \o SelectSeq(rows, isnan)

(***************************************************************************)
(* get_recommendations(df), lines 5-78.                                    *)
(***************************************************************************)
NoOutcome == [status |-> "none", missing |-> {}, table |-> <<>>]

\* What a call on t (lines 17-18 done) ends in: the returned table, the
\* KeyError of line 21 naming the labels not found, or the AttributeError of
\* the .str accessor of line 33 on a column that is not of object dtype.
GetRecommendations(t) ==
    IF MissingColumns(t) # {}
    THEN [status |-> "KeyError", missing |-> MissingColumns(t), table |-> <<>>]
    ELSE IF t.simDtype # "object"
    THEN [status |-> "AttributeError", missing |-> {}, table |-> <<>>]
    ELSE [status |-> "ok", missing |-> {},
          table |-> SortValues(Grouped(Recs(ArtistDf(t))))]

\* One invocation on the caller's table.
Call ==
    /\ df' = EnsureGenres(df)
    /\ outcome' = GetRecommendations(EnsureGenres(df))
    /\ prev' = outcome
    /\ UNCHANGED <<supplied, hashSeed, sortTies>>

Next == Call

(***************************************************************************)
(* The tables a caller supplies.                                           *)
(***************************************************************************)
S1(a) == Str(<<a>>)

SeqsUpTo(P, n) == UNION {[1..k -> P] : k \in 0..n}

\* A column holding nothing but NaN is float64 unless its values are objects.
Dtypes(cols, rows) ==
    IF /\ "Similar_Artists" \in cols
       /\ rows # <<>>
       /\ \A i \in DOMAIN rows : ~NotNa(rows[i].Similar_Artists)
    THEN {"object", "float64"}
    ELSE {"object"}

Project(rows, cols) == [i \in DOMAIN rows |-> [c \in cols |-> rows[i][c]]]

\* Every table of at most MaxRows rows of pool, under each set of columns.
Tables(colsets, pool) ==
    UNION {UNION {{[cols |-> cols, simDtype |-> d, rows |-> Project(rows, cols)] :
                      d \in Dtypes(cols, rows)} :
                  rows \in SeqsUpTo(pool, MaxRows)} :
           cols \in colsets}

RowsOf(A, S, P, G) ==
    {[Artist |-> a, Similar_Artists |-> s, Total_Plays |-> p, Artist_Genres |-> g] :
        a \in A, s \in S, p \in P, g \in G}

\* Names that differ in case, punctuation and surrounding blanks.
NameRows ==
    RowsOf({S1("r"), Str(<<"R", "!">>), S1("p"), Null},
           {Null, S1(" "), Str(<<"p", ",", " ", "c", ",">>),
            Str(<<"c", ",", "c">>), Str(<<"c", " ", ",", "r", "!">>)},
           {Num(2)},
           {Str(<<>>)})

\* Play counts: numbers, numeric str (negative too), other str, null.
PlayRows ==
    RowsOf({S1("r"), S1("p")},
           {S1("c"), Str(<<"c", ",", " ", "x">>)},
           {Null, Num(9), S1("5"), Str(<<"-", "5">>), S1("x")},
           {Str(<<>>)})

\* Genre text: tags repeated, differing in case, blank, null.
GenreRows ==
    RowsOf({S1("r"), S1("p")},
           {S1("c"), Str(<<"c", ",", " ", "x">>)},
           {Num(2)},
           {Null, S1("R"), Str(<<"r", ",", " ", "p">>),
            Str(<<" ", "p", " ", ",", "R">>), Str(<<" ", ",", " ">>)})

\* Anomalies of every kind, under every set of columns.
AnomalyRows ==
    RowsOf({S1("r"), Null},
           {Null, Str(<<>>), S1("c")},
           {S1("x"), Num(2)},
           {Null, S1("R")})

InitFrom(tables) ==
    /\ df \in tables
    /\ supplied = df
    /\ hashSeed \in {0, 1}
    /\ sortTies \in {"kept", "reversed"}
    /\ outcome = NoOutcome
    /\ prev = NoOutcome

InitNames == InitFrom(Tables({Selected}, NameRows))

InitPlays == InitFrom(Tables({Selected}, PlayRows))

InitGenres ==
    InitFrom(Tables({Selected, Selected \ {"Artist_Genres"}}, GenreRows))

InitColumns == InitFrom(Tables(SUBSET Selected, AnomalyRows))

Init == InitNames \/ InitPlays \/ InitGenres \/ InitColumns

SpecNames == InitNames /\ [][Next]_vars

SpecPlays == InitPlays /\ [][Next]_vars

SpecGenres == InitGenres /\ [][Next]_vars

SpecColumns == InitColumns /\ [][Next]_vars

Spec == Init /\ [][Next]_vars

(***************************************************************************)
(* What the claims speak of, read off the table as the caller supplied it. *)
(***************************************************************************)
Out == outcome.table

Returned == outcome.status = "ok"

\* Canonical key: lowercase, punctuation stripped, trimmed.
CanonicalKey(s) == Strip(SelectSeq(Lower(s), LAMBDA c : IsWord(c) \/ IsSpace(c)))

\* The library artists: the first row of each non-null Artist value.
Library ==
    {i \in DOMAIN supplied.rows :
        /\ NotNa(supplied.rows[i].Artist)
        /\ \A j \in 1..(i - 1) : supplied.rows[j].Artist # supplied.rows[i].Artist}

LibraryKeys == {CanonicalKey(supplied.rows[i].Artist.s) : i \in Library}

Pieces(i) ==
    IF IsStr(supplied.rows[i].Similar_Artists)
    THEN SplitCommaSpace(supplied.rows[i].Similar_Artists.s, <<>>)
    ELSE <<>>

\* How many times library artist i names m as similar.
Mentions(i, m) == Cardinality({k \in DOMAIN Pieces(i) : Pieces(i)[k] = m})

Contributors(m) == {i \in Library : Mentions(i, m) > 0}

Plays(i) == ToNumeric(supplied.rows[i].Total_Plays)

RECURSIVE RowsFrom(_, _)
RowsFrom(S, m) ==
    IF S = {} THEN 0
    ELSE LET i == CHOOSE x \in S : TRUE IN Mentions(i, m) + RowsFrom(S \ {i}, m)

RECURSIVE PlaysOverRows(_, _)
PlaysOverRows(S, m) ==
    IF S = {} THEN 0
    ELSE LET i == CHOOSE x \in S : TRUE
         IN Mentions(i, m) * Plays(i) + PlaysOverRows(S \ {i}, m)

RECURSIVE PlaysOnce(_)
PlaysOnce(S) ==
    IF S = {} THEN 0
    ELSE LET i == CHOOSE x \in S : TRUE IN Plays(i) + PlaysOnce(S \ {i})

\* The names that survive the fuzzy filter.
Candidates ==
    {m \in UNION {{Pieces(i)[k] : k \in DOMAIN Pieces(i)} : i \in Library} :
        m # <<>> /\ CanonicalKey(m) \notin LibraryKeys}

\* The genre tags of the rows that contribute to m.
ContributedTags(m) ==
    IF "Artist_Genres" \notin supplied.cols THEN {}
    ELSE UNION {IF IsStr(supplied.rows[i].Artist_Genres)
                THEN Tags(supplied.rows[i].Artist_Genres.s) ELSE {} :
                i \in Contributors(m)}

\* The tags a Related_Artist_Genres string lists, in its order.
Listed(g) ==
    IF g = <<>> THEN <<>>
    ELSE LET parts == SplitComma(g, <<>>) IN [k \in DOMAIN parts |-> Strip(parts[k])]

(***************************************************************************)
(* C1.  Every Missing_Artist of the returned table has a canonical key     *)
(* that no library artist has: no library artist is recommended, whatever  *)
(* its capitalization or punctuation.                                      *)
(***************************************************************************)
C1_MissingArtistNotInLibrary ==
    Returned =>
        \A k \in DOMAIN Out : CanonicalKey(Out[k].Missing_Artist) \notin LibraryKeys

\* "R!" is in the library; "c ,r!" names "c " and "r!": only "c " is returned.
C1_Witness ==
    /\ Returned
    /\ \E i \in DOMAIN supplied.rows :
          /\ supplied.rows[i].Artist = Str(<<"R", "!">>)
          /\ supplied.rows[i].Similar_Artists = Str(<<"c", " ", ",", "r", "!">>)
    /\ Len(Out) = 1
    /\ Out[1].Missing_Artist = <<"c", " ">>

(***************************************************************************)
(* C2.  The caller's table has after any sequence of calls the columns and *)
(* the cell values it had before the first.                                *)
(***************************************************************************)
C2_InputUnchanged == df = supplied

(***************************************************************************)
(* C3.  Every Total_Plays is coerced to a number >= 0, and so every        *)
(* Related_Library_Artists_Total_Play_Count returned is >= 0.              *)
(***************************************************************************)
C3_PlaysNonNegative ==
    Returned =>
        /\ \A i \in DOMAIN ArtistDf(df) : ArtistDf(df)[i].Total_Plays >= 0
        /\ \A k \in DOMAIN Out : Out[k].Related_Library_Artists_Total_Play_Count >= 0

(***************************************************************************)
(* C4.  No Missing_Artist returned is the empty string or made of          *)
(* whitespace only.                                                        *)
(***************************************************************************)
C4_NoBlankMissingArtist ==
    Returned => \A k \in DOMAIN Out : Strip(Out[k].Missing_Artist) # <<>>

(***************************************************************************)
(* C5.  Of any two adjacent rows returned, the earlier row's               *)
(* Priority_Score is greater than or equal to the later row's.             *)
(***************************************************************************)
C5_SortedDescending ==
    Returned =>
        \A k \in 1..(Len(Out) - 1) :
            ScoreGeq(Out[k].Priority_Score, Out[k + 1].Priority_Score)

(***************************************************************************)
(* C6.  A call on a table that lacks Artist, Similar_Artists or            *)
(* Total_Plays fails, names the columns it lacks and returns no table; a   *)
(* call on a table that has the three never fails.                         *)
(***************************************************************************)
C6_FailsOnlyOnMissingColumn ==
    outcome.status # "none" =>
        LET lacking == {"Artist", "Similar_Artists", "Total_Plays"} \ supplied.cols
        IN IF lacking # {}
           THEN outcome.status = "KeyError" /\ outcome.missing = lacking /\ Out = <<>>
           ELSE Returned

(***************************************************************************)
(* C7.  A second call on the table the first call was given ends as the    *)
(* first did: the same rows, in the same order, with the same strings.     *)
(***************************************************************************)
C7_SecondCallSameOutcome == prev.status # "none" => outcome = prev

\* Two calls made, tags "R" and "r" tie in the case-insensitive sort.
C7_Witness ==
    /\ prev.status = "ok"
    /\ outcome = prev
    /\ \E k \in DOMAIN Out :
          Out[k].Related_Artist_Genres = <<"p", ",", " ", "r", ",", " ", "R">>

(***************************************************************************)
(* C8, as claimed.  Recommendation_Count is the number of distinct library *)
(* artists that name the missing artist, and the play count has each of    *)
(* them once.                                                              *)
(***************************************************************************)
C8_CountIsDistinctArtists ==
    Returned =>
        \A k \in DOMAIN Out :
            LET who == Contributors(Out[k].Missing_Artist)
            IN /\ Out[k].Recommendation_Count = Cardinality(who)
               /\ Out[k].Related_Library_Artists_Total_Play_Count = PlaysOnce(who)

(***************************************************************************)
(* C8, amended.  A library artist contributes one candidate row for each   *)
(* time its Similar_Artists names the missing artist: Recommendation_Count *)
(* is the number of those rows, at least the number of distinct library    *)
(* artists listed in Related_Library_Artists and equal to it exactly when  *)
(* none of them names the missing artist twice, and the play count has     *)
(* each contributor's Total_Plays once per row.                            *)
(***************************************************************************)
C8_CountIsContributingRows ==
    Returned =>
        \A k \in DOMAIN Out :
            LET m == Out[k].Missing_Artist
                who == Contributors(m)
                listed == SelectSeq([i \in DOMAIN supplied.rows |-> i],
                                    LAMBDA i : i \in who)
            IN /\ Out[k].Recommendation_Count = RowsFrom(who, m)
               /\ Out[k].Related_Library_Artists_Total_Play_Count = PlaysOverRows(who, m)
               /\ Out[k].Related_Library_Artists =
                      Join(<<",", " ">>,
                           [j \in DOMAIN listed |-> supplied.rows[listed[j]].Artist.s])
               /\ Out[k].Recommendation_Count >= Cardinality(who)
               /\ (Out[k].Recommendation_Count = Cardinality(who))
                      <=> (\A i \in who : Mentions(i, m) = 1)

\* "c,c": one library artist, two rows of the group.
C8_Witness ==
    /\ Returned
    /\ \E k \in DOMAIN Out :
          /\ Out[k].Missing_Artist = <<"c">>
          /\ Out[k].Related_Library_Artists = <<"r">>
          /\ Out[k].Recommendation_Count = 2
          /\ Out[k].Related_Library_Artists_Total_Play_Count = 4

(***************************************************************************)
(* C9.  Related_Artist_Genres lists exactly the tags of the rows that      *)
(* contribute to the group: none twice, none left out, in case-insensitive *)
(* ascending order, and is empty when there is none.                       *)
(***************************************************************************)
C9_GenresAreTheUnion ==
    Returned =>
        \A k \in DOMAIN Out :
            LET tags == ContributedTags(Out[k].Missing_Artist)
                listed == Listed(Out[k].Related_Artist_Genres)
            IN /\ {listed[i] : i \in DOMAIN listed} = tags
               /\ \A i, j \in DOMAIN listed : i # j => listed[i] # listed[j]
               /\ \A i, j \in DOMAIN listed :
                      i < j => ~StrLess(Lower(listed[j]), Lower(listed[i]))
               /\ (tags = {}) => Out[k].Related_Artist_Genres = <<>>

\* Two library artists name "c"; their tags "R" and " p ,R" pool to "p, R".
C9_Witness ==
    /\ Returned
    /\ \E i, j \in DOMAIN supplied.rows :
          /\ "Artist_Genres" \in supplied.cols
          /\ supplied.rows[i].Artist_Genres = S1("R")
          /\ supplied.rows[j].Artist_Genres = Str(<<" ", "p", " ", ",", "R">>)
    /\ \E k \in DOMAIN Out :
          /\ Out[k].Recommendation_Count = 2
          /\ Out[k].Related_Artist_Genres = <<"p", ",", " ", "R">>

(***************************************************************************)
(* C10.  A group whose Total_Plays sum to 0 has Priority_Score 0 whatever  *)
(* its Recommendation_Count, and its row is returned.                      *)
(***************************************************************************)
C10_ZeroPlaysScoreZero ==
    Returned =>
        /\ \A k \in DOMAIN Out :
              Out[k].Related_Library_Artists_Total_Play_Count = 0
                  => ScoreIsZero(Out[k].Priority_Score)
        /\ \A m \in Candidates :
              PlaysOverRows(Contributors(m), m) = 0
                  => \E k \in DOMAIN Out :
                        /\ Out[k].Missing_Artist = m
                        /\ ScoreIsZero(Out[k].Priority_Score)

\* "x" and null both count as 0 plays: two rows, score 0, returned.
C10_Witness ==
    /\ Returned
    /\ \E i, j \in DOMAIN supplied.rows :
          /\ supplied.rows[i].Total_Plays = S1("x")
          /\ supplied.rows[j].Total_Plays = Null
    /\ \E k \in DOMAIN Out :
          /\ Out[k].Recommendation_Count = 2
          /\ Out[k].Related_Library_Artists_Total_Play_Count = 0
          /\ ScoreIsZero(Out[k].Priority_Score)

====
